---- MODULE Spec2Model ----
(***************************************************************************)
(* CommunityWatch: the request handlers of app/routes.py (Version 1 and    *)
(* Version 2) over the persistent store of app/models.py.                  *)
(*                                                                         *)
(* Conventions                                                             *)
(*   - `version` selects the iteration (1 or 2); it is chosen in Init and  *)
(*     never changes;                                                      *)
(*   - user 0 is the anonymous client (current_user.is_authenticated is    *)
(*     false); users 1..MaxUsers are registered, user 1 is the moderator;  *)
(*   - `db` is the persistent store.  An Upvote row is the pair            *)
(*     <<voter, issue_id>> and db.upvotes the bag of rows (the surrogate   *)
(*     primary key is not modelled); db.notifications is the bag of        *)
(*     Notification rows;                                                  *)
(*   - a view function is an operator from the store and the request's     *)
(*     inputs to [db |-> the store after the request, response |-> ...];   *)
(*     the action of the same name applies it;                             *)
(*   - coordinates are fixed-point, in units of 0.001 degree;              *)
(*   - an embedding is a sequence of integers, <<>> standing for NULL (and *)
(*     for the empty list, which Python's truth test treats alike);        *)
(*   - `response` is the response to the last request handled and          *)
(*     `outbound` the calls to external services made while handling it.   *)
(***************************************************************************)
EXTENDS Integers, Sequences, FiniteSets, Bags, TLC

\* ---------------------------------------------------------------- bounds
MaxUsers == 2
MaxIssues == 2
MaxNotifications == 2

\* ------------------------------------------------------ program constants
REPORT_POINTS == 5
UPVOTE_POINTS == 2
RESOLVED_POINTS == 20

Users == 1..MaxUsers
Actors == 0..MaxUsers
\* ids a request may name: every id that can exist and one that never does
RequestedIds == 1..(MaxIssues + 1)

VALID_STATUSES == {"Reported", "In Progress", "Resolved"}
\* values a client may submit in the 'status' form field
SubmittedStatuses == VALID_STATUSES \cup {"Closed"}
DEFAULT_STATUS == "Reported"

VALID_CATEGORIES == {"Pothole"}
Descriptions == {"d1"}
\* coordinates a client submits with a report (0.001 degree units)
ReportLats == {0}
ReportLngs == {0}
GeojsonInputs == {"absent", "valid", "malformed"}

\* the submitted form of POST /report-issue.  A field the view function never
\* reads (the coordinates and the geojson of a form that fails validation,
\* the geojson of a form without coordinates) is left at one value.
\* has_lat is false when the lat field is absent or is no number
\* (request.form.get(..., type=float) gives None for both); photo says
\* whether a file is attached.
FormsWith(lats, lngs, photos) ==
    {f \in [form_valid : BOOLEAN, has_lat : BOOLEAN, has_lng : BOOLEAN,
            lat : lats, lng : lngs, geojson : GeojsonInputs, photo : photos,
            category : VALID_CATEGORIES, description : Descriptions] :
        /\ ~f.form_valid => (f.has_lat /\ f.has_lng)
        /\ ~(f.form_valid /\ f.has_lat /\ f.has_lng) =>
              (f.geojson = "absent" /\ \A g \in photos : f.photo => g)
        /\ ~f.has_lat => f.has_lng
        /\ ~f.has_lat => \A x \in lats : f.lat <= x
        /\ ~f.has_lng => \A x \in lngs : f.lng <= x}

ReportForms == FormsWith(ReportLats, ReportLngs, {FALSE})

\* the forms of the report specification: coordinates on and beyond the ends
\* of the valid ranges (90 and 180 degrees), with and without a photo
SubmittedLats == {0, 90000, 90001}
SubmittedLngs == {0, 0 - 180001}
SubmittedForms == FormsWith(SubmittedLats, SubmittedLngs, BOOLEAN)

\* secure_filename(file_data.filename), for the one file name submitted
PhotoName == "photo.jpg"

VARIABLES version, is_moderator, db, response, outbound, now, app, scheduler, cache,
          inflight

vars == <<version, is_moderator, db, response, outbound, now, app, scheduler, cache,
          inflight>>

\* what no request handler changes
settings == <<version, is_moderator, now, app, scheduler, inflight>>

\* what a request handler that does not touch the cache leaves alone
fixed == <<settings, cache>>

\* mutant: @login_required is missing
is_authenticated_anyone(u) == TRUE
is_authenticated(u) == u \in Users

\* db.session.get(Issue, issue_id) is not None
IssueExists(S, issue_id) == issue_id \in DOMAIN S.issues

\* INTEGER PRIMARY KEY: one more than the largest id in use
\* mutant: the first id is handed out again
NextIssueIdFirst(S) == 1
NextIssueId(S) ==
    IF DOMAIN S.issues = {} THEN 1
    ELSE (CHOOSE m \in DOMAIN S.issues : \A k \in DOMAIN S.issues : k <= m) + 1

\* current_user.upvotes filtered by issue_id: is there a row?
HasUpvote(S, u, issue_id) == CopiesIn(<<u, issue_id>>, S.upvotes) > 0

\* users who hold an Upvote row on the issue (select(User).join(Upvote))
Upvoters(S, issue_id) == {u \in Users : CopiesIn(<<u, issue_id>>, S.upvotes) > 0}

\* ------------------------------------------------------------ responses
LoginRedirect == [code |-> 302, location |-> "login", flash |-> "Please log in"]
RateLimited == [code |-> 429, error |-> "Too many requests"]

\* the limiter's before_request check (Version 2: the route's limit or the
\* default limits), then @login_required: the response that ends the request
\* before the view function runs; code 0 when it runs
Gate(u, limited) ==
    IF version = 2 /\ limited THEN RateLimited
    ELSE IF ~is_authenticated(u) THEN LoginRedirect
    ELSE [code |-> 0]

Passes(u, limited) == Gate(u, limited).code = 0

\* ---------------------------------------------------------- report_issue
\* mutant: generate_and_set_embedding is called and stores a vector
NewIssueEmbedded(u, form) ==
    [category |-> form.category, description |-> form.description,
     latitude |-> form.lat, longitude |-> form.lng, reporter |-> u,
     status |-> DEFAULT_STATUS, upvote_count |-> 0, embedding |-> <<1, 0>>,
     timestamp |-> now]
NewIssue(u, form) ==
    [category |-> form.category, description |-> form.description,
     latitude |-> form.lat, longitude |-> form.lng, reporter |-> u,
     status |-> DEFAULT_STATUS, upvote_count |-> 0, embedding |-> <<>>,
     timestamp |-> now]

\* mutant: the report grants nothing
ReportReputationNone(points) == points
ReportReputation(points) == points + REPORT_POINTS

\* file_data.save(file_path): the upload folder after the photo, if any, is
\* written
SavePhoto(S, form) ==
    IF form.photo THEN [S EXCEPT !.uploads = @ \cup {PhotoName}] ELSE S

report_issue(S, u, limited, form) ==
    IF ~Passes(u, limited)
    THEN [db |-> S, response |-> Gate(u, limited)]
    ELSE IF ~form.form_valid
    THEN [db |-> S, response |-> [code |-> 400, success |-> FALSE,
                                  error |-> "form.errors"]]
    ELSE IF ~(form.has_lat /\ form.has_lng)
    THEN [db |-> S, response |-> [code |-> 400, success |-> FALSE,
                                  error |-> "Missing coordinates"]]
    ELSE LET saved == SavePhoto(S, form) IN
    IF form.geojson = "malformed"
    THEN \* json.loads raises before anything is added to the session; no
         \* handler catches it
         [db |-> saved, response |-> [code |-> 500, success |-> FALSE,
                                      error |-> "JSONDecodeError"]]
    ELSE LET id == NextIssueId(S) IN
         [db |-> [saved EXCEPT
                    !.issues = [k \in DOMAIN S.issues \cup {id} |->
                                  IF k = id THEN NewIssue(u, form) ELSE S.issues[k]],
                    !.reputation_points[u] = ReportReputation(@)],
          response |-> [code |-> 200, success |-> TRUE, id |-> id]]

\* ---------------------------------------------------------------- upvote
\* mutant: the count is not incremented
VoteCountStale(count) == count
VoteCount(count) == count + 1
UnvoteCount(count) == count - 1
VoteReputation(points) == points + UPVOTE_POINTS
\* mutant: un-voting does not revoke the points
UnvoteReputationKept(points) == points
UnvoteReputation(points) == points - UPVOTE_POINTS

\* mutant: the missing issue is answered as a success
IssueNotFoundOk == [code |-> 200, success |-> TRUE, error |-> "Issue not found"]
IssueNotFound ==
    [code |-> 404, success |-> FALSE,
     error |-> IF version = 1 THEN "Issue not found." ELSE "Issue not found"]

upvote(S, u, limited, issue_id) ==
    IF ~Passes(u, limited)
    THEN [db |-> S, response |-> Gate(u, limited)]
    ELSE IF ~IssueExists(S, issue_id)
    THEN [db |-> S, response |-> IssueNotFound]
    ELSE LET reporter == S.issues[issue_id].reporter
             row == SetToBag({<<u, issue_id>>})
         IN
         IF HasUpvote(S, u, issue_id)
         THEN [db |-> [S EXCEPT
                         !.upvotes = @ (-) row,
                         !.issues[issue_id].upvote_count = UnvoteCount(@),
                         !.reputation_points[reporter] = UnvoteReputation(@)],
               response |-> [code |-> 200, success |-> TRUE,
                             upvote_count |-> UnvoteCount(S.issues[issue_id].upvote_count),
                             voted |-> FALSE]]
         ELSE [db |-> [S EXCEPT
                         !.upvotes = @ (+) row,
                         !.issues[issue_id].upvote_count = VoteCount(@),
                         !.reputation_points[reporter] = VoteReputation(@)],
               response |-> [code |-> 200, success |-> TRUE,
                             upvote_count |-> VoteCount(S.issues[issue_id].upvote_count),
                             voted |-> TRUE]]

\* --------------------------------------------------------- update_status
\* the instant at which the process imported app.models
IMPORT_TIME == 0

\* Notification.timestamp's default: Version 1 passes the bound method
\* datetime.utcnow().timestamp of the datetime made at import, Version 2 a
\* lambda that reads the clock at insertion
NotificationTimestamp == IF version = 1 THEN IMPORT_TIME ELSE now

StatusUpdateNotification(S, u, issue_id, new_status) ==
    [user_id |-> u, name |-> "status_update", issue_id |-> issue_id,
     issue_category |-> S.issues[issue_id].category, status |-> new_status,
     timestamp |-> NotificationTimestamp]

\* mutant: the reporter is left out
RecipientsVotersOnly(S, issue_id) == Upvoters(S, issue_id)

\* recipients = {issue.reporter} plus every upvoter
Recipients(S, issue_id) == {S.issues[issue_id].reporter} \cup Upvoters(S, issue_id)

\* mutant: any submitted value is accepted
IsValidStatusAny(new_status) == TRUE
IsValidStatus(new_status) == new_status \in VALID_STATUSES

\* mutant: every accepted update grants the points
GrantsAlways(old_status, new_status) == TRUE

\* whether a status update grants the reporter the resolution points:
\* the code tests the submitted status only
GrantsResolved(old_status, new_status) == new_status = "Resolved"

ResolvedReputation(points) == points + RESOLVED_POINTS

\* mutant: the moderator check is missing
MayUpdateStatusAnyone(u) == TRUE

\* current_user.is_moderator
MayUpdateStatus(u) == is_moderator[u]

PermissionDenied ==
    [code |-> 302, location |-> "index",
     flash |-> IF version = 1 THEN "You do not have permission to perform this action."
               ELSE "Permission denied."]

update_status(S, u, limited, issue_id, new_status) ==
    IF ~Passes(u, limited)
    THEN [db |-> S, response |-> Gate(u, limited)]
    ELSE IF ~MayUpdateStatus(u)
    THEN [db |-> S, response |-> PermissionDenied]
    ELSE IF ~IssueExists(S, issue_id)
    THEN [db |-> S, response |-> [code |-> 302, location |-> "view_issue",
                                  flash |-> IF version = 2 THEN "Issue not found"
                                            ELSE ""]]
    ELSE IF ~IsValidStatus(new_status)
    THEN [db |-> S, response |-> [code |-> 302, location |-> "view_issue",
                                  flash |-> "Invalid status"]]
    ELSE LET reporter == S.issues[issue_id].reporter
             granted == GrantsResolved(S.issues[issue_id].status, new_status)
         IN
         [db |-> [S EXCEPT
                    !.issues[issue_id].status = new_status,
                    !.reputation_points[reporter] =
                        IF granted THEN ResolvedReputation(@) ELSE @,
                    !.notifications = @ (+)
                        SetToBag({StatusUpdateNotification(S, r, issue_id, new_status) :
                                  r \in Recipients(S, issue_id)})],
          response |-> [code |-> 302, location |-> "view_issue",
                        flash |-> IF version = 1 THEN "Issue status has been updated"
                                  ELSE ""]]

\* no external service was called
NoCalls == [services |-> {}, classifier_input |-> {}]

\* ------------------------------------------------------ requests in flight
\* requests that are handled at the same time, each by its own worker with
\* its own database session
MaxInflight == 2
Slots == 1..MaxInflight

Idle == [pc |-> "idle", u |-> 0, issue_id |-> 0, upvote_count |-> 0,
         reputation_points |-> 0, existing |-> FALSE, stale |-> FALSE]
NoRequests == [k \in Slots |-> Idle]

\* ------------------------------------------------------------ the cache
\* Flask-Caching's store (Version 2).  The analytics view is decorated with
\* @cache.cached(timeout=3600, key_prefix='analytics'): its rendered page is
\* kept under the key 'analytics'.  analytics_memver is the version key that
\* @cache.memoize would keep for the function; nothing here writes it.
EmptyCache == [analytics |-> <<>>, analytics_memver |-> <<>>]

\* cache.delete_memoized(analytics) without arguments: the function's
\* memoize version key is deleted; the entry stored by @cache.cached under
\* its key_prefix is not addressed
delete_memoized(c) == [c EXCEPT !.analytics_memver = <<>>]

\* the handler reached db.session.commit()
Committed(S, r) ==
    \/ r.db.issues # S.issues
    \/ r.db.upvotes # S.upvotes
    \/ r.db.notifications # S.notifications

\* the line after the commit in report_issue, upvote and update_status of
\* Version 2
after_commit(S, r, c) ==
    IF version = 2 /\ Committed(S, r) THEN delete_memoized(c) ELSE c

\* --------------------------------------------------------------- actions
ReportIssue(u, limited, form) ==
    LET r == report_issue(db, u, limited, form) IN
    /\ Cardinality(DOMAIN r.db.issues) <= MaxIssues
    /\ db' = r.db
    /\ response' = r.response
    /\ outbound' = NoCalls
    /\ cache' = after_commit(db, r, cache)
    /\ UNCHANGED settings

Upvote(u, limited, issue_id) ==
    LET r == upvote(db, u, limited, issue_id) IN
    /\ db' = r.db
    /\ response' = r.response
    /\ outbound' = NoCalls
    /\ cache' = after_commit(db, r, cache)
    /\ UNCHANGED settings

UpdateStatus(u, limited, issue_id, new_status) ==
    LET r == update_status(db, u, limited, issue_id, new_status) IN
    /\ BagCardinality(r.db.notifications) <= MaxNotifications
    /\ db' = r.db
    /\ response' = r.response
    /\ outbound' = NoCalls
    /\ cache' = after_commit(db, r, cache)
    /\ UNCHANGED settings

\* ------------------------------------------------------------------ Init
\* accounts holds the username and email columns of the User rows: user k
\* of Users has the username k and the address k
EmptyStore == [reputation_points |-> [u \in Users |-> 0], issues |-> <<>>,
               upvotes |-> EmptyBag, notifications |-> EmptyBag,
               comments |-> EmptyBag, uploads |-> {},
               accounts |-> SetToBag({[username |-> u, email |-> u] : u \in Users})]

\* the process before create_app has been called: the module-level
\* APScheduler() is not running and holds no job
NoApp == [created |-> FALSE, debug |-> FALSE, testing |-> FALSE]
IdleScheduler == [running |-> FALSE, jobs |-> EmptyBag, executing |-> 0, app |-> "none"]

JOB_ID == "delete_old_issues_job"

\* the process after one create_app() with the default Config
ServingApp == [created |-> TRUE, debug |-> FALSE, testing |-> FALSE]
StartedScheduler ==
    [running |-> TRUE, jobs |-> SetToBag({JOB_ID}), executing |-> 0, app |-> "current"]

Init ==
    /\ version \in {1, 2}
    /\ is_moderator = [u \in Users |-> u = 1]
    /\ db = EmptyStore
    /\ response = [code |-> 0]
    /\ outbound = NoCalls
    /\ now = 0
    /\ app = ServingApp
    /\ scheduler = StartedScheduler
    /\ cache = EmptyCache
    /\ inflight = NoRequests

LimiterOutcomes == IF version = 2 THEN BOOLEAN ELSE {FALSE}

Next ==
    \/ \E u \in Actors, limited \in LimiterOutcomes, form \in ReportForms :
          ReportIssue(u, limited, form)
    \/ \E u \in Actors, limited \in LimiterOutcomes, issue_id \in RequestedIds :
          Upvote(u, limited, issue_id)
    \/ \E u \in Actors, limited \in LimiterOutcomes, issue_id \in RequestedIds,
          new_status \in SubmittedStatuses :
          UpdateStatus(u, limited, issue_id, new_status)

Spec == Init /\ [][Next]_vars

\* ---------------------------------------------------- report submissions
\* POST /report-issue alone, over the wider set of submitted forms
NextReport ==
    \E u \in Actors, limited \in LimiterOutcomes, form \in SubmittedForms :
        ReportIssue(u, limited, form)

SpecReport == Init /\ [][NextReport]_vars

\* ================================================================ search
\* radii of the two box filters, in 0.001 degree (0.05 and 0.001 degree)
SEARCH_RADIUS == 50
DUPLICATE_RADIUS == 1
\* THRESHOLD = 0.6, as the fraction THRESHOLD_NUM / THRESHOLD_DEN
THRESHOLD_NUM == 3
THRESHOLD_DEN == 5

\* stored coordinates and request centres that put issues inside, on and
\* just outside both boxes, on either side
SeedLats == {50, 51}
SeedLngs == {50, 51}
SearchCentres == {0, 101}
DuplicateCentres == {49, 52}
\* the vectors the similarity function is compared on: every vector of one
\* or two components in -MaxComponent..MaxComponent that has a non-zero norm
MaxComponent == 2
Components == (0 - MaxComponent)..MaxComponent
SimilarityVectors ==
    {v \in [1..1 -> Components] \cup [1..2 -> Components] :
        \E k \in DOMAIN v : v[k] # 0}
SeedEmbeddings == {<<>>, <<1, 0>>, <<3, 4>>}
QueryEmbeddings == {<<1, 0>>, <<4, 3>>}
Queries == {"", " ", "pothole"}
Locations == {"", "Lagos"}

\* mutant: the ends are excluded
BetweenExclusive(x, lo, hi) == lo < x /\ x < hi

\* SQL BETWEEN: both ends inclusive
Between(x, lo, hi) == lo <= x /\ x <= hi

\* the WHERE clause of search and of check_duplicates
InBox(issue, lat, lng, radius) ==
    /\ Between(issue.latitude, lat - radius, lat + radius)
    /\ Between(issue.longitude, lng - radius, lng + radius)

NearbyIds(S, lat, lng, radius) ==
    {id \in DOMAIN S.issues : InBox(S.issues[id], lat, lng, radius)}

\* the orders in which a SELECT without ORDER BY may return the issues
ScanOrders(S) ==
    LET ids == DOMAIN S.issues
        n == Cardinality(ids)
    IN  {scan \in [1..n -> ids] : \A a, b \in 1..n : scan[a] = scan[b] => a = b}

\* the rows of a scan that satisfy the WHERE clause
Rows(scan, ids) == SelectSeq(scan, LAMBDA id : id \in ids)

\* str.strip(), on the strings of Queries and Locations
Strip(s) == IF s = " " THEN "" ELSE s
\* request.args.get(...), stripped in Version 2 only
RequestArg(s) == IF version = 2 THEN Strip(s) ELSE s

\* the geocoder's outcomes, and get_coords_for_location's result for each
GeocoderOutcomes ==
    [kind : {"raise", "none"}, lat : {0}, lng : {0}] \cup
    [kind : {"found"}, lat : SearchCentres, lng : SearchCentres]
\* mutant: the geocoder's failure is not noticed
get_coords_unchecked(geo) == [found |-> TRUE, lat |-> geo.lat, lng |-> geo.lng]
get_coords_for_location(geo) ==
    IF geo.kind = "found" THEN [found |-> TRUE, lat |-> geo.lat, lng |-> geo.lng]
    ELSE [found |-> FALSE, lat |-> 0, lng |-> 0]

\* the embedding service's outcomes, and generate_embedding's result
EmbeddingOutcomes ==
    [kind : {"raise"}, embedding : {<<>>}] \cup
    [kind : {"ok"}, embedding : QueryEmbeddings]
generate_embedding(emb) == IF emb.kind = "ok" THEN emb.embedding ELSE <<>>

RECURSIVE Dot(_, _)
Dot(v1, v2) ==
    IF v1 = <<>> \/ v2 = <<>> THEN 0
    ELSE Head(v1) * Head(v2) + Dot(Tail(v1), Tail(v2))

\* mutant: the dot product is normalised by the first vector alone
cosine_similarity_left(v1, v2) ==
    [dot |-> Dot(v1, v2), sq |-> Dot(v1, v1) * Dot(v1, v1)]

\* np.dot(v1, v2) / (norm(v1) * norm(v2)), kept exact: the score is
\* dot / sqrt(sq), and NaN when sq = 0 (a zero vector: 0/0 in numpy)
cosine_similarity(v1, v2) ==
    [dot |-> Dot(v1, v2), sq |-> Dot(v1, v1) * Dot(v2, v2)]

IsNaN(score) == score.sq = 0

\* mutant: score >= THRESHOLD
AtOrAboveThreshold(score) ==
    /\ score.sq # 0
    /\ score.dot > 0
    /\ THRESHOLD_DEN * THRESHOLD_DEN * score.dot * score.dot
         >= THRESHOLD_NUM * THRESHOLD_NUM * score.sq

\* mutant: a NaN score passes the comparison
AboveThresholdOrNaN(score) ==
    \/ IsNaN(score)
    \/ /\ score.dot > 0
       /\ THRESHOLD_DEN * THRESHOLD_DEN * score.dot * score.dot
            > THRESHOLD_NUM * THRESHOLD_NUM * score.sq

\* score > THRESHOLD (every comparison with NaN is false)
AboveThreshold(score) ==
    /\ ~IsNaN(score)
    /\ score.dot > 0
    /\ THRESHOLD_DEN * THRESHOLD_DEN * score.dot * score.dot
         > THRESHOLD_NUM * THRESHOLD_NUM * score.sq

\* a < b, for two scores that are not NaN
ScoreLess(a, b) ==
    IF a.dot < 0 /\ b.dot >= 0 THEN TRUE
    ELSE IF a.dot >= 0 /\ b.dot < 0 THEN FALSE
    ELSE IF a.dot >= 0 THEN a.dot * a.dot * b.sq < b.dot * b.dot * a.sq
    ELSE a.dot * a.dot * b.sq > b.dot * b.dot * a.sq

\* where sorted(..., reverse=True) puts an id: after every id already placed
\* whose score is not less than its own (the sort is stable)
InsertPosition(sorted, id, score) ==
    Cardinality({j \in 1..Len(sorted) : ~ScoreLess(score[sorted[j]], score[id])})

RECURSIVE SortedDescending(_, _)
SortedDescending(ids, score) ==
    IF ids = <<>> THEN <<>>
    ELSE LET n == Len(ids)
             sorted == SortedDescending(SubSeq(ids, 1, n - 1), score)
             k == InsertPosition(sorted, ids[n], score)
         IN  SubSeq(sorted, 1, k) \o <<ids[n]>> \o SubSeq(sorted, k + 1, Len(sorted))

\* the ranking of search: similarities, relevant_ids, sorted_ids
Ranked(S, issue_list, query_vector) ==
    LET embedded == SelectSeq(issue_list, LAMBDA id : S.issues[id].embedding # <<>>)
        similarities == [id \in DOMAIN S.issues |->
                           cosine_similarity(query_vector, S.issues[id].embedding)]
        relevant_ids == SelectSeq(embedded, LAMBDA id : AboveThreshold(similarities[id]))
    IN  SortedDescending(relevant_ids, similarities)

ResultsPage(results, flash) ==
    [code |-> 200, page |-> "search_results", results |-> results, flash |-> flash]

search(S, limited, q, loc, geo, emb, scan) ==
    LET query == RequestArg(q)
        location_query == RequestArg(loc)
        coords == get_coords_for_location(geo)
        geocoded == IF location_query # "" THEN {"geocoder"} ELSE {}
        candidates == IF location_query # ""
                      THEN NearbyIds(S, coords.lat, coords.lng, SEARCH_RADIUS)
                      ELSE DOMAIN S.issues
        issue_list == Rows(scan, candidates)
        query_embedding == generate_embedding(emb)
    IN
    IF version = 2 /\ limited
    THEN [db |-> S, outbound |-> NoCalls, response |-> RateLimited]
    ELSE IF query = "" /\ location_query = ""
    THEN [db |-> S, outbound |-> NoCalls,
          response |-> [code |-> 302, location |-> "index", flash |-> ""]]
    ELSE IF location_query # "" /\ ~coords.found
    THEN [db |-> S, outbound |-> [NoCalls EXCEPT !.services = geocoded],
          response |-> ResultsPage(<<>>, "Could not find location")]
    ELSE IF query # "" /\ issue_list # <<>>
    THEN [db |-> S,
          outbound |-> [NoCalls EXCEPT !.services = geocoded \cup {"embedding"}],
          response |-> ResultsPage(IF query_embedding # <<>>
                                   THEN Ranked(S, issue_list, query_embedding)
                                   ELSE <<>>, "")]
    ELSE [db |-> S, outbound |-> [NoCalls EXCEPT !.services = geocoded],
          response |-> ResultsPage(issue_list, "")]

\* ----------------------------------------------------- check_duplicates
\* what the classifier call does: raise, answer with text that is no JSON,
\* or answer with a JSON object
ClassifierOutcomes ==
    [kind : {"raise", "garbage", "non-object"}, is_duplicate : {FALSE}, duplicate_id : {0}] \cup
    [kind : {"json"}, is_duplicate : {FALSE}, duplicate_id : {0}] \cup
    [kind : {"json"}, is_duplicate : {TRUE}, duplicate_id : RequestedIds]

NotDuplicate == [is_duplicate |-> FALSE]

\* mutant: the empty list is not short-circuited
NoExistingIssuesNever(existing_issues) == FALSE

\* `not existing_issues`
NoExistingIssues(existing_issues) == existing_issues = {}

\* json.loads of text that is valid JSON but no object (a list, a number)
NonObject == [value |-> "non-object"]

\* whether the try block raises: the API call fails, or json.loads rejects
\* the text
Raises(ai) == ai.kind \in {"raise", "garbage"}

\* mutant: the except clause hands on what it caught
ExceptResultUnusable == [value |-> "exception"]

\* what the except clause returns
ExceptResult == NotDuplicate

\* result.get(...) works on a dict only
IsDict(result) == "is_duplicate" \in DOMAIN result

find_duplicate_issue(existing_issues, ai) ==
    IF NoExistingIssues(existing_issues)
    THEN [result |-> NotDuplicate, outbound |-> NoCalls]
    ELSE [result |-> IF Raises(ai) THEN ExceptResult
                     ELSE IF ai.kind = "non-object" THEN NonObject
                     ELSE IF ai.is_duplicate
                          THEN [is_duplicate |-> TRUE, duplicate_id |-> ai.duplicate_id]
                          ELSE NotDuplicate,
          outbound |-> [services |-> {"classifier"},
                        classifier_input |-> existing_issues]]

\* the JSON body of POST /check-duplicates
DuplicateBodies ==
    [coords_ok : {FALSE}, lat : {0}, lng : {0}] \cup
    [coords_ok : {TRUE}, lat : DuplicateCentres, lng : DuplicateCentres]

check_duplicates(S, u, limited, body, ai) ==
    IF ~Passes(u, limited)
    THEN [db |-> S, outbound |-> NoCalls, response |-> Gate(u, limited)]
    ELSE IF ~body.coords_ok
    THEN [db |-> S, outbound |-> NoCalls,
          response |-> [code |-> 400, error |-> "Invalid coordinates"]]
    ELSE LET nearby_issues == NearbyIds(S, body.lat, body.lng, DUPLICATE_RADIUS) IN
         IF nearby_issues = {}
         THEN [db |-> S, outbound |-> NoCalls,
               response |-> [code |-> 200, body |-> NotDuplicate]]
         ELSE LET found == find_duplicate_issue(nearby_issues, ai)
                  result == found.result
              IN  IF ~IsDict(result)
                  THEN [db |-> S, outbound |-> found.outbound,
                        response |-> [code |-> 500, error |-> "AttributeError"]]
                  ELSE
                  [db |-> S, outbound |-> found.outbound,
                   response |->
                     [code |-> 200,
                      body |-> IF result.is_duplicate /\ IssueExists(S, result.duplicate_id)
                               THEN [is_duplicate |-> TRUE,
                                     duplicate_id |-> result.duplicate_id,
                                     duplicate_title |-> S.issues[result.duplicate_id].category]
                               ELSE result]]

Search(limited, q, loc, geo, emb, scan) ==
    LET r == search(db, limited, q, loc, geo, emb, scan) IN
    /\ db' = r.db
    /\ response' = r.response
    /\ outbound' = r.outbound
    /\ UNCHANGED fixed

CheckDuplicates(u, limited, body, ai) ==
    LET r == check_duplicates(db, u, limited, body, ai) IN
    /\ db' = r.db
    /\ response' = r.response
    /\ outbound' = r.outbound
    /\ UNCHANGED fixed

\* a direct call of ai_services.find_duplicate_issue
FindDuplicateIssue(existing_issues, ai) ==
    LET r == find_duplicate_issue(existing_issues, ai) IN
    /\ response' = [code |-> 0, body |-> r.result]
    /\ outbound' = r.outbound
    /\ UNCHANGED <<fixed, db>>

\* a store holding n reported issues, as n accepted reports leave it, with
\* the coordinates and embeddings drawn from the seed sets
SeedIssues ==
    [latitude : SeedLats, longitude : SeedLngs, embedding : SeedEmbeddings,
     category : VALID_CATEGORIES, description : Descriptions,
     reporter : {2}, status : {DEFAULT_STATUS}, upvote_count : {0},
     timestamp : {0}]

SeededStore(stored) ==
    [EmptyStore EXCEPT
       !.issues = stored,
       !.reputation_points[2] = REPORT_POINTS * Len(stored)]

InitSearch ==
    /\ version \in {1, 2}
    /\ is_moderator = [u \in Users |-> u = 1]
    /\ \E n \in 0..MaxIssues : \E stored \in [1..n -> SeedIssues] :
          db = SeededStore(stored)
    /\ response = [code |-> 0]
    /\ outbound = NoCalls
    /\ now = 0
    /\ app = ServingApp
    /\ scheduler = StartedScheduler
    /\ cache = EmptyCache
    /\ inflight = NoRequests

NextSearch ==
    \/ \E limited \in LimiterOutcomes, q \in Queries, loc \in Locations,
          geo \in GeocoderOutcomes, emb \in EmbeddingOutcomes,
          scan \in ScanOrders(db) :
          Search(limited, q, loc, geo, emb, scan)
    \/ \E u \in Actors, limited \in LimiterOutcomes, body \in DuplicateBodies,
          ai \in ClassifierOutcomes :
          CheckDuplicates(u, limited, body, ai)
    \/ \E existing_issues \in SUBSET DOMAIN db.issues, ai \in ClassifierOutcomes :
          FindDuplicateIssue(existing_issues, ai)

SpecSearch == InitSearch /\ [][NextSearch]_vars

\* ------------------------------------------------- search over reported issues
\* search and the duplicate check over the stores that report_issue and
\* upvote build
NextReported ==
    \/ \E u \in Users, form \in ReportForms : ReportIssue(u, FALSE, form)
    \/ \E u \in Users, issue_id \in RequestedIds : Upvote(u, FALSE, issue_id)
    \/ \E limited \in LimiterOutcomes, q \in Queries, loc \in Locations,
          geo \in GeocoderOutcomes, emb \in EmbeddingOutcomes,
          scan \in ScanOrders(db) :
          Search(limited, q, loc, geo, emb, scan)

SpecReported == Init /\ [][NextReported]_vars

\* ------------------------------------------------------- degenerate vectors
\* search over stores in which an issue's embedding may be the zero vector,
\* with queries whose embedding may be the zero vector
ZeroVector == <<0, 0>>
DegenerateSeeds ==
    [latitude : {50}, longitude : SeedLngs, embedding : {ZeroVector, <<3, 4>>},
     category : VALID_CATEGORIES, description : Descriptions,
     reporter : {2}, status : {DEFAULT_STATUS}, upvote_count : {0},
     timestamp : {0}]
DegenerateOutcomes ==
    [kind : {"ok"}, embedding : {ZeroVector, <<4, 3>>}]

InitDegenerate ==
    /\ version \in {1, 2}
    /\ is_moderator = [u \in Users |-> u = 1]
    /\ \E n \in 0..MaxIssues : \E stored \in [1..n -> DegenerateSeeds] :
          db = SeededStore(stored)
    /\ response = [code |-> 0]
    /\ outbound = NoCalls
    /\ now = 0
    /\ app = ServingApp
    /\ scheduler = StartedScheduler
    /\ cache = EmptyCache
    /\ inflight = NoRequests

NextDegenerate ==
    \E limited \in LimiterOutcomes, q \in Queries, loc \in Locations,
       geo \in GeocoderOutcomes, emb \in DegenerateOutcomes,
       scan \in ScanOrders(db) :
       Search(limited, q, loc, geo, emb, scan)

SpecDegenerate == InitDegenerate /\ [][NextDegenerate]_vars

\* ============================================================= lifecycle
\* pages, comments, the clock and the retention sweep
MaxComments == 1
RETENTION_DAYS == 90

\* the instants (in days) at which something happens: an issue made at 0 is
\* exactly 90 days old at 90 and older than that at 91
Instants == {0, 90, 91}
SinceValues == {0 - 1} \cup Instants
RequestedUsers == 1..(MaxUsers + 1)
Methods == {"GET", "POST"}
CommentBodies == {"c1"}

\* the rows of a bag that satisfy a predicate
BagFilter(B, Keep(_)) == [e \in {x \in DOMAIN B : Keep(x)} |-> B[e]]

IndexRedirect(flash) == [code |-> 302, location |-> "index", flash |-> flash]

NewComment(u, issue_id, body) == [user_id |-> u, issue_id |-> issue_id, body |-> body]

\* GET/POST /issue/<id>: form.validate_on_submit() holds for a POST whose
\* form is valid
view_issue(S, u, limited, issue_id, method, form_valid, body) ==
    IF ~Passes(u, limited)
    THEN [db |-> S, response |-> Gate(u, limited)]
    ELSE IF ~IssueExists(S, issue_id)
    THEN [db |-> S, response |-> IndexRedirect("Issue not found.")]
    ELSE IF method = "POST" /\ form_valid
    THEN [db |-> [S EXCEPT !.comments = @ (+) SetToBag({NewComment(u, issue_id, body)})],
          response |-> [code |-> 302, location |-> "view_issue",
                        flash |-> "Your comment has been published."]]
    ELSE [db |-> S,
          response |-> [code |-> 200, page |-> "view_issue", issue |-> issue_id,
                        comments |-> BagFilter(S.comments,
                                               LAMBDA c : c.issue_id = issue_id)]]

\* GET /: no login is required
index(S, u, limited) ==
    IF version = 2 /\ limited
    THEN [db |-> S, response |-> RateLimited]
    ELSE [db |-> S,
          response |-> [code |-> 200, page |-> "index",
                        issues_data |->
                          [id \in DOMAIN S.issues |->
                             [upvotes |-> S.issues[id].upvote_count,
                              user_has_voted |-> is_authenticated(u) /\ HasUpvote(S, u, id),
                              status |-> S.issues[id].status]]]]

UserNotifications(S, u) == BagFilter(S.notifications, LAMBDA n : n.user_id = u)

\* GET /notifications?since=t (the order of the list is not modelled)
notifications(S, u, limited, since) ==
    IF ~Passes(u, limited)
    THEN [db |-> S, response |-> Gate(u, limited)]
    ELSE [db |-> S,
          response |-> [code |-> 200,
                        body |-> BagFilter(UserNotifications(S, u),
                                           LAMBDA n : n.timestamp > since)]]

\* GET /notification-history: one page of 15 holds every notification here
notification_history(S, u, limited) ==
    IF ~Passes(u, limited)
    THEN [db |-> S, response |-> Gate(u, limited)]
    ELSE [db |-> S,
          response |-> [code |-> 200, page |-> "notification_history",
                        notifications |-> UserNotifications(S, u)]]

\* GET /user/<username>: user k has the username k
user_profile(S, u, limited, username) ==
    IF ~Passes(u, limited)
    THEN [db |-> S, response |-> Gate(u, limited)]
    ELSE IF username \notin Users
    THEN [db |-> S, response |-> IndexRedirect("User not found.")]
    ELSE [db |-> S,
          response |-> [code |-> 200, page |-> "user_profile", user |-> username,
                        issues |-> {id \in DOMAIN S.issues :
                                      S.issues[id].reporter = username}]]

\* the reverse geocoder's outcomes, and get_location_for_coords's result
ReverseOutcomes == {"address", "none", "raise"}
get_location_for_coords(rev) ==
    IF rev = "address" THEN "an address"
    ELSE IF rev = "none" THEN "Unknown location"
    ELSE "Could not determine address"

\* POST /reverse-geocode with a JSON object that has both coordinates or
\* lacks them
reverse_geocode(S, u, limited, has_coords, rev) ==
    IF ~Passes(u, limited)
    THEN [db |-> S, outbound |-> NoCalls, response |-> Gate(u, limited)]
    ELSE IF version = 2 /\ ~has_coords
    THEN [db |-> S, outbound |-> NoCalls,
          response |-> [code |-> 400, error |-> "Missing coordinates"]]
    ELSE [db |-> S, outbound |-> [NoCalls EXCEPT !.services = {"geocoder"}],
          response |-> [code |-> 200,
                        address |-> get_location_for_coords(
                                       IF has_coords THEN rev ELSE "raise")]]

\* ------------------------------------------------------ delete_old_issues
\* mutant: the cutoff comparison includes the issue that is exactly 90 days old
IsOldInclusive(issue, t) == issue.timestamp <= t - RETENTION_DAYS

\* Issue.timestamp < utcnow() - timedelta(days=90)
IsOld(issue, t) == issue.timestamp < t - RETENTION_DAYS

\* the rows that go with a deleted issue: its comments in both versions
\* (cascade="all, delete-orphan"), its upvotes in Version 2 only (Version 1's
\* Issue has no relationship to Upvote)
UpvotesCascade == version = 2

\* one run of the task at instant t
delete_old_issues(S, t) ==
    LET issues_to_delete == {id \in DOMAIN S.issues : IsOld(S.issues[id], t)}
        kept == DOMAIN S.issues \ issues_to_delete
    IN  [db |-> [S EXCEPT
                   !.issues = [id \in kept |-> S.issues[id]],
                   !.comments = BagFilter(@, LAMBDA c : c.issue_id \in kept),
                   !.upvotes = IF UpvotesCascade
                               THEN BagFilter(@, LAMBDA row : row[2] \in kept)
                               ELSE @],
         response |-> [code |-> 0, task |-> "delete_old_issues",
                       deleted |-> Cardinality(issues_to_delete)]]

\* --------------------------------------------------------------- actions
ViewIssue(u, limited, issue_id, method, form_valid, body) ==
    LET r == view_issue(db, u, limited, issue_id, method, form_valid, body) IN
    /\ BagCardinality(r.db.comments) <= MaxComments
    /\ db' = r.db
    /\ response' = r.response
    /\ outbound' = NoCalls
    /\ UNCHANGED fixed

Index(u, limited) ==
    LET r == index(db, u, limited) IN
    /\ db' = r.db
    /\ response' = r.response
    /\ outbound' = NoCalls
    /\ UNCHANGED fixed

Notifications(u, limited, since) ==
    LET r == notifications(db, u, limited, since) IN
    /\ db' = r.db
    /\ response' = r.response
    /\ outbound' = NoCalls
    /\ UNCHANGED fixed

NotificationHistory(u, limited) ==
    LET r == notification_history(db, u, limited) IN
    /\ db' = r.db
    /\ response' = r.response
    /\ outbound' = NoCalls
    /\ UNCHANGED fixed

UserProfile(u, limited, username) ==
    LET r == user_profile(db, u, limited, username) IN
    /\ db' = r.db
    /\ response' = r.response
    /\ outbound' = NoCalls
    /\ UNCHANGED fixed

ReverseGeocode(u, limited, has_coords, rev) ==
    LET r == reverse_geocode(db, u, limited, has_coords, rev) IN
    /\ db' = r.db
    /\ response' = r.response
    /\ outbound' = r.outbound
    /\ UNCHANGED fixed

\* the scheduler runs the job to completion
DeleteOldIssues ==
    LET r == delete_old_issues(db, now) IN
    /\ JOB_ID \in DOMAIN scheduler.jobs
    /\ db' = r.db
    /\ response' = r.response
    /\ outbound' = NoCalls
    /\ UNCHANGED fixed

\* time passes
Tick(t) ==
    /\ t > now
    /\ now' = t
    /\ cache' = EmptyCache
    /\ UNCHANGED <<version, is_moderator, db, response, outbound, app, scheduler, inflight>>

NextLifecycle ==
    \/ \E u \in Actors, limited \in LimiterOutcomes, form \in ReportForms :
          ReportIssue(u, limited, form)
    \/ \E u \in Actors, limited \in LimiterOutcomes, issue_id \in RequestedIds :
          Upvote(u, limited, issue_id)
    \/ DeleteOldIssues
    \/ \E t \in Instants : Tick(t)

SpecLifecycle == Init /\ [][NextLifecycle]_vars

\* -------------------------------------------------------------- analytics
TOP_ISSUES == 5

Unresolved(S) == {id \in DOMAIN S.issues : S.issues[id].status # "Resolved"}

\* GROUP BY status: one (status, count) row for each status that occurs
status_counts(S) ==
    {<<s, Cardinality({id \in DOMAIN S.issues : S.issues[id].status = s})>> :
        s \in {S.issues[id].status : id \in DOMAIN S.issues}}

\* the unresolved issues by upvote_count descending, at most five of them;
\* rows with equal counts come in id order
top_issues(S) ==
    LET ids == Unresolved(S)
        n == Cardinality(ids)
        Before(a, b) ==
            \/ S.issues[a].upvote_count > S.issues[b].upvote_count
            \/ S.issues[a].upvote_count = S.issues[b].upvote_count /\ a < b
        ordered == CHOOSE o \in [1..n -> ids] :
                      \A i, j \in 1..n : i < j => Before(o[i], o[j])
    IN  [i \in 1..(IF n < TOP_ISSUES THEN n ELSE TOP_ISSUES) |->
            [id |-> ordered[i], upvote_count |-> S.issues[ordered[i]].upvote_count,
             status |-> S.issues[ordered[i]].status]]

\* one [latitude, longitude] pair for each unresolved issue
heatmap_data(S) ==
    LET points == {<<S.issues[id].latitude, S.issues[id].longitude>> : id \in Unresolved(S)}
    IN  [p \in points |->
            Cardinality({id \in Unresolved(S) :
                           <<S.issues[id].latitude, S.issues[id].longitude>> = p})]

\* the page that the view function renders from the database
AnalyticsPage(S) ==
    [code |-> 200, page |-> "analytics", status_counts |-> status_counts(S),
     top_issues |-> top_issues(S), heatmap_data |-> heatmap_data(S)]

\* GET /analytics.  Version 2 wraps the view in @cache.cached: a stored page
\* is returned as it is, otherwise the page is rendered and stored
analytics(S, c, limited) ==
    IF version = 2 /\ limited
    THEN [db |-> S, cache |-> c, response |-> RateLimited]
    ELSE IF version = 2 /\ c.analytics # <<>>
    THEN [db |-> S, cache |-> c, response |-> c.analytics[1]]
    ELSE [db |-> S,
          cache |-> IF version = 2 THEN [c EXCEPT !.analytics = <<AnalyticsPage(S)>>]
                    ELSE c,
          response |-> AnalyticsPage(S)]

Analytics(limited) ==
    LET r == analytics(db, cache, limited) IN
    /\ db' = r.db
    /\ cache' = r.cache
    /\ response' = r.response
    /\ outbound' = NoCalls
    /\ UNCHANGED settings

\* the dashboard next to the handlers that change what it shows, within
\* the hour for which a stored page is kept
MaxCharted == 1

NextAnalytics ==
    \/ \E u \in Users, form \in ReportForms :
          Cardinality(DOMAIN db.issues) < MaxCharted /\ ReportIssue(u, FALSE, form)
    \/ \E u \in Users, issue_id \in RequestedIds : Upvote(u, FALSE, issue_id)
    \/ \E u \in Users, issue_id \in RequestedIds, new_status \in SubmittedStatuses :
          UpdateStatus(u, FALSE, issue_id, new_status)
    \/ \E limited \in LimiterOutcomes : Analytics(limited)

SpecAnalytics == Init /\ [][NextAnalytics]_vars

\* ---------------------------------------------------------- notifications
\* status updates and notification polling as the clock advances
MaxWatched == 1

NextNotify ==
    \/ \E u \in Users, form \in ReportForms :
          Cardinality(DOMAIN db.issues) < MaxWatched /\ ReportIssue(u, FALSE, form)
    \/ \E u \in Users, issue_id \in RequestedIds : Upvote(u, FALSE, issue_id)
    \/ \E u \in Users, issue_id \in RequestedIds, new_status \in VALID_STATUSES :
          UpdateStatus(u, FALSE, issue_id, new_status)
    \/ \E u \in Users, since \in SinceValues : Notifications(u, FALSE, since)
    \/ \E t \in Instants : Tick(t)

SpecNotify == Init /\ [][NextNotify]_vars

\* ------------------------------------------------------ concurrent upvotes
\* upvote as its worker runs it, statement by statement, next to another
\* worker: nothing in the view function or the schema (the Upvote table has
\* no unique constraint, the counters are written as computed values) orders
\* two requests
MaxSkew == 2
MaxContended == 1

\* db.session.get(Issue, issue_id) and the reads of issue.upvote_count and
\* issue.reporter.reputation_points
UpvoteLoad(k, u, issue_id) ==
    /\ inflight[k].pc = "idle"
    /\ is_authenticated(u)
    /\ IssueExists(db, issue_id)
    /\ inflight' = [inflight EXCEPT ![k] =
                      [pc |-> "loaded", u |-> u, issue_id |-> issue_id,
                       upvote_count |-> db.issues[issue_id].upvote_count,
                       reputation_points |->
                           db.reputation_points[db.issues[issue_id].reporter],
                       existing |-> FALSE, stale |-> FALSE]]
    /\ UNCHANGED <<version, is_moderator, db, response, outbound, now, app,
                   scheduler, cache>>

\* existing_upvote = current_user.upvotes filtered by issue_id
UpvoteCheck(k) ==
    /\ inflight[k].pc = "loaded"
    /\ inflight' = [inflight EXCEPT
                      ![k].pc = "checked",
                      ![k].existing = HasUpvote(db, inflight[k].u, inflight[k].issue_id)]
    /\ UNCHANGED <<version, is_moderator, db, response, outbound, now, app,
                   scheduler, cache>>

\* the rest of the view function up to db.session.commit(): the row is
\* deleted or inserted and the counters are written with the values computed
\* from what this worker read.  A DELETE of a row that another worker has
\* deleted since the check matches nothing (stale); whether two workers read
\* the same row of a pair of duplicates is not determined, so such a DELETE
\* may also remove the other row (removes)
UpvoteCommit(k, removes) ==
    LET req == inflight[k]
        issue_id == req.issue_id
        reporter == db.issues[issue_id].reporter
        row == SetToBag({<<req.u, issue_id>>})
        deleted == req.existing /\ HasUpvote(db, req.u, issue_id)
                                /\ (req.stale => removes)
        count == IF req.existing THEN UnvoteCount(req.upvote_count)
                 ELSE VoteCount(req.upvote_count)
        points == IF req.existing THEN UnvoteReputation(req.reputation_points)
                  ELSE VoteReputation(req.reputation_points)
    IN
    /\ req.pc = "checked"
    /\ IssueExists(db, issue_id)
    /\ ~req.stale => removes
    /\ count \in (0 - MaxSkew)..MaxSkew
    /\ db' = [db EXCEPT
                !.upvotes = IF req.existing
                            THEN (IF deleted THEN @ (-) row ELSE @)
                            ELSE @ (+) row,
                !.issues[issue_id].upvote_count = count,
                !.reputation_points[reporter] = points]
    /\ inflight' = [j \in Slots |->
                      IF j = k THEN Idle
                      ELSE IF /\ deleted
                              /\ inflight[j].pc = "checked"
                              /\ inflight[j].existing
                              /\ inflight[j].u = req.u
                              /\ inflight[j].issue_id = issue_id
                      THEN [inflight[j] EXCEPT !.stale = TRUE]
                      ELSE inflight[j]]
    /\ response' = [code |-> 200, success |-> TRUE, upvote_count |-> count,
                    voted |-> ~req.existing]
    /\ outbound' = NoCalls
    /\ cache' = IF version = 2 THEN delete_memoized(cache) ELSE cache
    /\ UNCHANGED <<version, is_moderator, now, app, scheduler>>

NextConcurrent ==
    \/ \E u \in Users, form \in ReportForms :
          Cardinality(DOMAIN db.issues) < MaxContended /\ ReportIssue(u, FALSE, form)
    \/ \E k \in Slots, u \in Users, issue_id \in RequestedIds : UpvoteLoad(k, u, issue_id)
    \/ \E k \in Slots : UpvoteCheck(k)
    \/ \E k \in Slots, removes \in BOOLEAN : UpvoteCommit(k, removes)

SpecConcurrent == Init /\ [][NextConcurrent]_vars

\* ----------------------------------------------------------- registration
\* the usernames and e-mail addresses a registration form can carry
MaxNames == 4
Names == 1..MaxNames
RegistrationForms == [username : Names, email : Names, well_formed : BOOLEAN]

\* RegistrationForm.validate_username and validate_email: a SELECT in the
\* request's own session, and the error the field gets
validate_username(S, username) ==
    IF \E a \in BagToSet(S.accounts) : a.username = username
    THEN {"Please use a different username."} ELSE {}

validate_email(S, email) ==
    IF \E a \in BagToSet(S.accounts) : a.email = email
    THEN {"Please use a different email address."} ELSE {}

\* form.validate_on_submit() of a POST: the field validators (DataRequired,
\* Email, EqualTo, Length) pass on a well-formed form, then the two lookups
FormErrors(S, form) ==
    (IF form.well_formed THEN {} ELSE {"invalid field"})
        \cup validate_username(S, form.username) \cup validate_email(S, form.email)

validate_on_submit(S, form) == FormErrors(S, form) = {}

\* the unique indexes of User.username and User.email, checked by the
\* database when the INSERT is flushed
NoUniqueIndex(S, row) == FALSE
UniqueViolation(S, row) ==
    \E a \in BagToSet(S.accounts) : a.username = row.username \/ a.email = row.email

RegisteredFlash ==
    IF version = 1 THEN "Congratulations, you are now a registered user!"
    ELSE "Registration successful! Please sign in."

\* db.session.add(user); db.session.commit(): the IntegrityError of a
\* violated index is not caught, the request ends with a 500 and its
\* session is discarded
add_user(S, row) ==
    IF UniqueViolation(S, row)
    THEN [db |-> S, response |-> [code |-> 500, error |-> "IntegrityError"]]
    ELSE [db |-> [S EXCEPT !.accounts = @ (+) SetToBag({row})],
          response |-> [code |-> 302, location |-> "login", flash |-> RegisteredFlash]]

RegisterPage(errors) == [code |-> 200, page |-> "register", errors |-> errors]

\* POST /register handled alone
register(S, u, limited, form) ==
    IF version = 2 /\ limited THEN [db |-> S, response |-> RateLimited]
    ELSE IF is_authenticated(u) THEN [db |-> S, response |-> [code |-> 302, location |-> "index"]]
    ELSE IF ~validate_on_submit(S, form)
    THEN [db |-> S, response |-> RegisterPage(FormErrors(S, form))]
    ELSE add_user(S, [username |-> form.username, email |-> form.email])

Register(u, limited, form) ==
    LET r == register(db, u, limited, form) IN
    /\ db' = r.db
    /\ response' = r.response
    /\ outbound' = NoCalls
    /\ UNCHANGED fixed

\* POST /register of an anonymous visitor in two steps, so that two
\* requests interleave: the form's lookups, then the INSERT and commit
RegisterValidate(k, form) ==
    /\ inflight[k].pc = "idle"
    /\ IF validate_on_submit(db, form)
       THEN /\ inflight' = [inflight EXCEPT ![k] =
                  [pc |-> "validated", username |-> form.username, email |-> form.email]]
            /\ UNCHANGED response
       ELSE /\ response' = RegisterPage(FormErrors(db, form))
            /\ UNCHANGED inflight
    /\ outbound' = NoCalls
    /\ UNCHANGED <<version, is_moderator, now, app, scheduler, cache, db>>

RegisterCommit(k) ==
    LET r == add_user(db, [username |-> inflight[k].username, email |-> inflight[k].email]) IN
    /\ inflight[k].pc = "validated"
    /\ db' = r.db
    /\ response' = r.response
    /\ inflight' = [inflight EXCEPT ![k] = Idle]
    /\ outbound' = NoCalls
    /\ UNCHANGED <<version, is_moderator, now, app, scheduler, cache>>

NextRegister ==
    \/ \E u \in Users \cup {0}, limited \in BOOLEAN, form \in RegistrationForms :
          Register(u, limited, form)
    \/ \E k \in Slots, form \in RegistrationForms : RegisterValidate(k, form)
    \/ \E k \in Slots : RegisterCommit(k)

SpecRegister == Init /\ [][NextRegister]_vars

\* -------------------------------------------------------------- scheduler
\* APScheduler runs at most this many instances of one job at a time; add_job
\* is called without max_instances
MAX_INSTANCES == 1

\* scheduler.get_job('delete_old_issues_job') is not None
get_job(sched) == CopiesIn(JOB_ID, sched.jobs) > 0

\* create_app(): a new Flask instance whose debug flag comes from the
\* environment and whose testing flag comes from the config class.  The
\* module-level scheduler is started and given the job only by a call made
\* outside debug and testing mode while the scheduler is not running;
\* scheduler.app says whether the instance it was initialised with is the
\* one the caller now holds ("current") or one made by an earlier call
create_app(sched, debug, testing) ==
    LET instance == [created |-> TRUE, debug |-> debug, testing |-> testing]
        other == [sched EXCEPT !.app = IF @ = "current" THEN "earlier" ELSE @]
    IN  IF ~debug /\ ~testing /\ ~sched.running
        THEN [app |-> instance,
              scheduler |-> [sched EXCEPT
                               !.app = "current",
                               !.running = TRUE,
                               !.jobs = IF get_job(sched) THEN @
                                        ELSE @ (+) SetToBag({JOB_ID})]]
        ELSE [app |-> instance, scheduler |-> other]

CreateApp(debug, testing) ==
    LET r == create_app(scheduler, debug, testing) IN
    /\ app' = r.app
    /\ scheduler' = r.scheduler
    /\ cache' = EmptyCache
    /\ UNCHANGED <<version, is_moderator, db, response, outbound, now, inflight>>

\* tests/conftest.py: app = create_app(), then app.config.update(TESTING=True)
SetTesting ==
    /\ version = 1
    /\ app.created /\ ~app.testing
    /\ app' = [app EXCEPT !.testing = TRUE]
    /\ UNCHANGED <<version, is_moderator, db, response, outbound, now, scheduler, cache,
                   inflight>>

\* run.py of Version 2: app = create_app(), then app.run(debug=True)
RunDebug ==
    /\ version = 2
    /\ app.created /\ ~app.debug
    /\ app' = [app EXCEPT !.debug = TRUE]
    /\ UNCHANGED <<version, is_moderator, db, response, outbound, now, scheduler, cache,
                   inflight>>

\* the interval trigger fires: the job is submitted unless it is already
\* running max_instances times
StartSweep ==
    /\ scheduler.running
    /\ get_job(scheduler)
    /\ scheduler.executing < MAX_INSTANCES
    /\ scheduler' = [scheduler EXCEPT !.executing = @ + 1]
    /\ UNCHANGED <<version, is_moderator, db, response, outbound, now, app, cache,
                   inflight>>

\* the running delete_old_issues(app) commits and returns
FinishSweep ==
    LET r == delete_old_issues(db, now) IN
    /\ scheduler.executing > 0
    /\ db' = r.db
    /\ response' = r.response
    /\ outbound' = NoCalls
    /\ scheduler' = [scheduler EXCEPT !.executing = @ - 1]
    /\ UNCHANGED <<version, is_moderator, now, app, cache, inflight>>

\* the process from its start, before any create_app call
InitProcess ==
    /\ version \in {1, 2}
    /\ is_moderator = [u \in Users |-> u = 1]
    /\ db = EmptyStore
    /\ response = [code |-> 0]
    /\ outbound = NoCalls
    /\ now = 0
    /\ app = NoApp
    /\ scheduler = IdleScheduler
    /\ cache = EmptyCache
    /\ inflight = NoRequests

NextScheduler ==
    \/ \E debug \in BOOLEAN, testing \in BOOLEAN : CreateApp(debug, testing)
    \/ SetTesting
    \/ RunDebug
    \/ StartSweep
    \/ FinishSweep
    \/ \E t \in Instants : Tick(t)
    \/ \E u \in Users, form \in ReportForms :
          app.created /\ ReportIssue(u, FALSE, form)

SpecScheduler == InitProcess /\ [][NextScheduler]_vars

\* ----------------------------------------------------------------- pages
\* the pages and small API endpoints, over a store of reported issues
NextPages ==
    \/ \E u \in Actors, limited \in LimiterOutcomes, issue_id \in RequestedIds,
          method \in Methods, form_valid \in BOOLEAN, body \in CommentBodies :
          ViewIssue(u, limited, issue_id, method, form_valid, body)
    \/ \E u \in Actors, limited \in LimiterOutcomes : Index(u, limited)
    \/ \E u \in Actors, limited \in LimiterOutcomes, since \in SinceValues :
          Notifications(u, limited, since)
    \/ \E u \in Actors, limited \in LimiterOutcomes : NotificationHistory(u, limited)
    \/ \E u \in Actors, limited \in LimiterOutcomes, username \in RequestedUsers :
          UserProfile(u, limited, username)
    \/ \E u \in Actors, limited \in LimiterOutcomes, has_coords \in BOOLEAN,
          rev \in ReverseOutcomes :
          ReverseGeocode(u, limited, has_coords, rev)

SpecPages == InitSearch /\ [][NextPages]_vars

\* ================================================================ claims
\* the users other than u
Others(u) == Users \ {u}
\* the Upvote rows other than <<u, issue_id>>, as the pairs a row can be
OtherRows(u, issue_id) == (Users \X RequestedIds) \ {<<u, issue_id>>}
Moderators == {u \in Users : is_moderator[u]}

\* C1: two consecutive successful upvote requests by the same user on the
\* same issue restore the issue's upvote_count, the reporter's
\* reputation_points and the Upvote rows, and answer voted=true then
\* voted=false when the user had not voted (false then true when they had).
C1_UpvoteTwiceRestores ==
    \A u \in Users, i \in RequestedIds, l1 \in LimiterOutcomes, l2 \in LimiterOutcomes :
        LET first == upvote(db, u, l1, i)
            second == upvote(first.db, u, l2, i)
        IN  (first.response.code = 200 /\ second.response.code = 200) =>
            LET reporter == db.issues[i].reporter
                had == CopiesIn(<<u, i>>, db.upvotes) > 0
            IN  /\ second.db.issues[i].upvote_count = db.issues[i].upvote_count
                /\ second.db.reputation_points[reporter] = db.reputation_points[reporter]
                /\ second.db.upvotes = db.upvotes
                /\ first.response.voted = ~had
                /\ second.response.voted = had

\* a vote and its un-vote have been handled: the last response is a
\* successful un-vote and no Upvote row is left
C1_Witness ==
    /\ response.code = 200
    /\ "voted" \in DOMAIN response
    /\ ~response.voted
    /\ response.upvote_count = 0
    /\ db.upvotes = EmptyBag

\* C2: an upvote by a user without a row adds exactly one row, +1 to the
\* issue's upvote_count and +2 to the reporter's reputation; by a user with
\* a row it removes the row, -1 and -2.  No other issue and no user other
\* than the reporter changes.
C2_UpvoteEffect ==
    \A u \in Users, i \in RequestedIds, l \in LimiterOutcomes :
        LET r == upvote(db, u, l, i) IN
        r.response.code = 200 =>
            LET reporter == db.issues[i].reporter
                had == CopiesIn(<<u, i>>, db.upvotes) > 0
                sign == IF had THEN 0 - 1 ELSE 1
            IN  /\ i \in DOMAIN db.issues
                /\ CopiesIn(<<u, i>>, r.db.upvotes) = CopiesIn(<<u, i>>, db.upvotes) + sign
                /\ \A p \in OtherRows(u, i) :
                      CopiesIn(p, r.db.upvotes) = CopiesIn(p, db.upvotes)
                /\ r.db.issues[i].upvote_count = db.issues[i].upvote_count + sign
                /\ r.db.reputation_points[reporter] =
                      db.reputation_points[reporter] + 2 * sign
                /\ DOMAIN r.db.issues = DOMAIN db.issues
                /\ \A j \in DOMAIN db.issues \ {i} : r.db.issues[j] = db.issues[j]
                /\ \A v \in Others(reporter) :
                      r.db.reputation_points[v] = db.reputation_points[v]
                /\ r.response.voted = ~had

\* a vote by someone other than the reporter is in place and was the last
\* request: the reporter holds the report's and the vote's points, the voter none
C2_Witness ==
    /\ response.code = 200
    /\ "voted" \in DOMAIN response
    /\ response.voted
    /\ \E i \in DOMAIN db.issues, u \in Users :
          /\ u # db.issues[i].reporter
          /\ HasUpvote(db, u, i)
          /\ db.issues[i].upvote_count = 1
          /\ db.reputation_points[db.issues[i].reporter] = 7
          /\ db.reputation_points[u] = 0

\* C3: a successful report creates exactly one issue, owned by the
\* requesting user, with status 'Reported' and upvote_count 0, and gives that
\* user exactly 5 points; no other user and no stored issue changes.
C3_ReportEffect ==
    \A u \in Users, l \in LimiterOutcomes, form \in ReportForms :
        LET r == report_issue(db, u, l, form) IN
        r.response.code = 200 =>
            /\ form.form_valid /\ form.has_lat /\ form.has_lng
            /\ Cardinality(DOMAIN r.db.issues \ DOMAIN db.issues) = 1
            /\ DOMAIN db.issues \subseteq DOMAIN r.db.issues
            /\ r.response.id \in DOMAIN r.db.issues \ DOMAIN db.issues
            /\ r.db.issues[r.response.id].reporter = u
            /\ r.db.issues[r.response.id].status = "Reported"
            /\ r.db.issues[r.response.id].upvote_count = 0
            /\ r.db.reputation_points[u] = db.reputation_points[u] + 5
            /\ \A v \in Others(u) : r.db.reputation_points[v] = db.reputation_points[v]
            /\ \A j \in DOMAIN db.issues : r.db.issues[j] = db.issues[j]

\* a second report was accepted while the first issue, already upvoted, is
\* stored unchanged
C3_Witness ==
    /\ response.code = 200
    /\ "id" \in DOMAIN response
    /\ response.id = 2
    /\ db.issues[2].status = "Reported"
    /\ db.issues[2].upvote_count = 0
    /\ db.issues[1].upvote_count = 1
    /\ db.reputation_points[db.issues[2].reporter] >= 5

C5_GrantOnlyOnEnteringResolved ==
    \A m \in Moderators, i \in DOMAIN db.issues :
        LET reporter == db.issues[i].reporter
            resolved == update_status(db, m, FALSE, i, "Resolved")
        IN  resolved.db.reputation_points[reporter] =
               IF db.issues[i].status # "Resolved"
               THEN db.reputation_points[reporter] + 20
               ELSE db.reputation_points[reporter]

C7_NonModeratorRejected ==
    \A u \in Users \ Moderators, i \in RequestedIds, s \in SubmittedStatuses :
        LET r == update_status(db, u, FALSE, i, s) IN
        /\ r.db = db
        /\ r.response.code = 302
        /\ r.response.flash # ""

\* a non-moderator's update has just been refused while an issue is stored
C7_Witness ==
    /\ response = PermissionDenied
    /\ db.issues # <<>>
    /\ \A i \in DOMAIN db.issues : db.issues[i].status = "Reported"

\* the elements of a sequence
Range(seq) == {seq[k] : k \in DOMAIN seq}

\* C8: the geographic filter keeps a stored issue if and only if its
\* latitude lies in [lat - r, lat + r] and its longitude in [lng - r, lng + r],
\* ends included, with r = 0.05 (50 units) around the geocoded centre in
\* search and r = 0.001 (1 unit) around the request's centre in
\* check_duplicates.
C8_GeoBoxFilter ==
    /\ \A q \in Queries, loc \in Locations, geo \in GeocoderOutcomes,
          emb \in EmbeddingOutcomes, scan \in ScanOrders(db) :
          (RequestArg(loc) # "" /\ geo.kind = "found") =>
              LET r == search(db, FALSE, q, loc, geo, emb, scan)
                  box == {id \in DOMAIN db.issues :
                            /\ geo.lat - 50 <= db.issues[id].latitude
                            /\ db.issues[id].latitude <= geo.lat + 50
                            /\ geo.lng - 50 <= db.issues[id].longitude
                            /\ db.issues[id].longitude <= geo.lng + 50}
              IN  /\ Range(r.response.results) \subseteq box
                  /\ RequestArg(q) = "" => Range(r.response.results) = box
    /\ \A u \in Users, body \in DuplicateBodies, ai \in ClassifierOutcomes :
          body.coords_ok =>
              LET r == check_duplicates(db, u, FALSE, body, ai)
                  box == {id \in DOMAIN db.issues :
                            /\ body.lat - 1 <= db.issues[id].latitude
                            /\ db.issues[id].latitude <= body.lat + 1
                            /\ body.lng - 1 <= db.issues[id].longitude
                            /\ db.issues[id].longitude <= body.lng + 1}
              IN  r.outbound.classifier_input = box

\* a location-only search has returned the one issue that lies on the edge
\* of the box and left out the one just outside it
C8_Witness ==
    /\ response.code = 200
    /\ "results" \in DOMAIN response
    /\ outbound.services = {"geocoder"}
    /\ Len(response.results) = 1
    /\ Len(db.issues) = 2
    /\ db.issues[response.results[1]].latitude = 51
    /\ db.issues[response.results[1]].longitude = 51
    /\ \E id \in DOMAIN db.issues : db.issues[id].latitude = 50

\* C9: when the query is not empty and its embedding is obtained, the results
\* are exactly the candidates that carry an embedding whose cosine similarity
\* to the query is strictly above 0.6, each once, in order of non-increasing
\* similarity.
C9_RankedResults ==
    \A q \in Queries, loc \in Locations, geo \in GeocoderOutcomes,
       emb \in EmbeddingOutcomes, scan \in ScanOrders(db) :
        (/\ RequestArg(q) # ""
         /\ emb.kind = "ok"
         /\ RequestArg(loc) # "" => geo.kind = "found") =>
            LET results == search(db, FALSE, q, loc, geo, emb, scan).response.results
                candidates == IF RequestArg(loc) = "" THEN DOMAIN db.issues
                              ELSE {id \in DOMAIN db.issues :
                                      /\ geo.lat - 50 <= db.issues[id].latitude
                                      /\ db.issues[id].latitude <= geo.lat + 50
                                      /\ geo.lng - 50 <= db.issues[id].longitude
                                      /\ db.issues[id].longitude <= geo.lng + 50}
                d(id) == Dot(emb.embedding, db.issues[id].embedding)
                n(id) == Dot(emb.embedding, emb.embedding)
                           * Dot(db.issues[id].embedding, db.issues[id].embedding)
            IN  /\ \A a, b \in DOMAIN results : results[a] = results[b] => a = b
                /\ Range(results) =
                      {id \in candidates :
                          /\ db.issues[id].embedding # <<>>
                          /\ d(id) > 0
                          /\ 25 * d(id) * d(id) > 9 * n(id)}
                /\ \A a, b \in DOMAIN results :
                      a < b => d(results[a]) * d(results[a]) * n(results[b])
                                  >= d(results[b]) * d(results[b]) * n(results[a])

\* a ranked search has returned both stored issues with the later-stored,
\* closer one first
C9_Witness ==
    /\ response.code = 200
    /\ "results" \in DOMAIN response
    /\ "embedding" \in outbound.services
    /\ response.results = <<2, 1>>
    /\ db.issues[2].embedding = <<3, 4>>
    /\ db.issues[1].embedding = <<1, 0>>

\* C10: when no stored issue lies in the duplicate-check box, check_duplicates
\* answers is_duplicate=false and the classifier is not called; and
\* find_duplicate_issue given an empty list answers is_duplicate=false
\* without calling the classifier.
C10_EmptyCandidatesSkipClassifier ==
    /\ \A u \in Users, body \in DuplicateBodies, ai \in ClassifierOutcomes :
          (/\ body.coords_ok
           /\ ~\E id \in DOMAIN db.issues :
                  /\ body.lat - 1 <= db.issues[id].latitude
                  /\ db.issues[id].latitude <= body.lat + 1
                  /\ body.lng - 1 <= db.issues[id].longitude
                  /\ db.issues[id].longitude <= body.lng + 1) =>
              LET r == check_duplicates(db, u, FALSE, body, ai) IN
              /\ r.response.code = 200
              /\ r.response.body.is_duplicate = FALSE
              /\ "classifier" \notin r.outbound.services
    /\ \A ai \in ClassifierOutcomes :
          LET r == find_duplicate_issue({}, ai) IN
          /\ r.result.is_duplicate = FALSE
          /\ "classifier" \notin r.outbound.services

\* a duplicate check has been answered with is_duplicate=false and without
\* any outbound call, although issues are stored (none of them in the box)
C10_Witness ==
    /\ response = [code |-> 200, body |-> NotDuplicate]
    /\ outbound = NoCalls
    /\ Len(db.issues) = 2

\* C11: when the classifier call raises or answers with text that cannot be
\* parsed, find_duplicate_issue returns is_duplicate=false and
\* check_duplicates answers 200 with is_duplicate=false; the store is
\* unchanged.
C11_ClassifierFailsSoft ==
    \A ai \in ClassifierOutcomes :
        ai.kind \in {"raise", "garbage"} =>
            /\ \A existing_issues \in SUBSET DOMAIN db.issues :
                  find_duplicate_issue(existing_issues, ai).result = [is_duplicate |-> FALSE]
            /\ \A u \in Users, body \in DuplicateBodies :
                  body.coords_ok =>
                      LET r == check_duplicates(db, u, FALSE, body, ai) IN
                      /\ r.response = [code |-> 200, body |-> [is_duplicate |-> FALSE]]
                      /\ r.db = db

\* a duplicate check whose classifier call was made has been answered with
\* is_duplicate=false
C11_Witness ==
    /\ response = [code |-> 200, body |-> NotDuplicate]
    /\ outbound.services = {"classifier"}
    /\ outbound.classifier_input # {}

\* C12: in search, a geocoder that raises or finds nothing for a non-empty
\* loc gives a normal page with no results (never the unfiltered list), and
\* an embedding call that fails for a non-empty query gives a normal page
\* with no results; the store is unchanged in both cases.
C12_SearchDegrades ==
    \A q \in Queries, loc \in Locations, geo \in GeocoderOutcomes,
       emb \in EmbeddingOutcomes, scan \in ScanOrders(db) :
        LET r == search(db, FALSE, q, loc, geo, emb, scan)
            geocoder_failed == RequestArg(loc) # "" /\ geo.kind \in {"raise", "none"}
            embedding_failed == RequestArg(q) # "" /\ emb.kind = "raise"
        IN  (geocoder_failed \/ embedding_failed) =>
                /\ r.response.code = 200
                /\ r.response.page = "search_results"
                /\ r.response.results = <<>>
                /\ r.db = db

\* a search whose geocoder call failed has been answered with an empty page
\* while two issues are stored
C12_Witness ==
    /\ response.code = 200
    /\ "results" \in DOMAIN response
    /\ response.results = <<>>
    /\ response.flash = "Could not find location"
    /\ outbound.services = {"geocoder"}
    /\ Len(db.issues) = 2

\* C15: every stored issue has -90 <= latitude <= 90 and
\* -180 <= longitude <= 180 (in 0.001 degree: 90000 and 180000).
C15_CoordinatesInRange ==
    \A i \in DOMAIN db.issues :
        /\ 0 - 90000 <= db.issues[i].latitude
        /\ db.issues[i].latitude <= 90000
        /\ 0 - 180000 <= db.issues[i].longitude
        /\ db.issues[i].longitude <= 180000

\* C16: a report whose form fails validation, whose lat or lng is missing or
\* no number, or whose geojson is not valid JSON is answered with status 400
\* and changes nothing: no issue is created, no reputation is granted.
C16_MalformedReportRejected ==
    \A u \in Users, form \in SubmittedForms :
        (\/ ~form.form_valid
         \/ ~form.has_lat
         \/ ~form.has_lng
         \/ form.geojson = "malformed") =>
            LET r == report_issue(db, u, FALSE, form) IN
            /\ r.response.code = 400
            /\ r.db = db

\* C13: a request without a login to any of the nine login-required
\* endpoints is answered with a redirect to the login page and leaves the
\* store as it was, while GET / without a login is answered 200.
C13_AnonymousRedirected ==
    LET Refused(r) == /\ r.response.code = 302
                      /\ r.response.location = "login"
                      /\ r.db = db
    IN  /\ Refused(notification_history(db, 0, FALSE))
        /\ \A since \in SinceValues : Refused(notifications(db, 0, FALSE, since))
        /\ \A username \in RequestedUsers : Refused(user_profile(db, 0, FALSE, username))
        /\ \A has_coords \in BOOLEAN, rev \in ReverseOutcomes :
              Refused(reverse_geocode(db, 0, FALSE, has_coords, rev))
        /\ \A i \in RequestedIds, method \in Methods, form_valid \in BOOLEAN,
              body \in CommentBodies :
              Refused(view_issue(db, 0, FALSE, i, method, form_valid, body))
        /\ \A body \in DuplicateBodies, ai \in ClassifierOutcomes :
              Refused(check_duplicates(db, 0, FALSE, body, ai))
        /\ \A i \in RequestedIds : Refused(upvote(db, 0, FALSE, i))
        /\ \A i \in RequestedIds, s \in SubmittedStatuses :
              Refused(update_status(db, 0, FALSE, i, s))
        /\ \A form \in SubmittedForms : Refused(report_issue(db, 0, FALSE, form))
        /\ index(db, 0, FALSE).response.code = 200

\* a request without a login has just been sent to the login page while two
\* issues are stored
C13_Witness ==
    /\ response.code = 302
    /\ response.location = "login"
    /\ Len(db.issues) = 2
    /\ db.comments = EmptyBag

\* C14: no request handler and no run of the retention task changes the
\* category, description, latitude, longitude, timestamp or reporter of an
\* issue that is stored before and after it.
C14_IssueFieldsImmutable ==
    LET Fixed(issue) == <<issue.category, issue.description, issue.latitude,
                          issue.longitude, issue.timestamp, issue.reporter>>
        Kept(r) == \A id \in DOMAIN db.issues \cap DOMAIN r.db.issues :
                       Fixed(r.db.issues[id]) = Fixed(db.issues[id])
    IN  /\ \A u \in Users, form \in SubmittedForms : Kept(report_issue(db, u, FALSE, form))
        /\ \A u \in Users, i \in RequestedIds : Kept(upvote(db, u, FALSE, i))
        /\ \A u \in Users, i \in RequestedIds, s \in SubmittedStatuses :
              Kept(update_status(db, u, FALSE, i, s))
        /\ \A u \in Users, i \in RequestedIds, method \in Methods,
              form_valid \in BOOLEAN, body \in CommentBodies :
              Kept(view_issue(db, u, FALSE, i, method, form_valid, body))
        /\ \A t \in Instants : Kept(delete_old_issues(db, t))
        /\ \A u \in Users, body \in DuplicateBodies, ai \in ClassifierOutcomes :
              Kept(check_duplicates(db, u, FALSE, body, ai))
        /\ \A u \in Users : Kept(index(db, u, FALSE))
                         /\ Kept(notification_history(db, u, FALSE))

\* a sweep has purged one issue and left another, reported on day 90 and
\* upvoted since, in the store
C14_Witness ==
    /\ "task" \in DOMAIN response
    /\ response.deleted = 1
    /\ \E id \in DOMAIN db.issues :
          /\ db.issues[id].timestamp = 90
          /\ db.issues[id].upvote_count = 1
          /\ db.issues[id].reporter = 2

\* C17: a request naming an issue id that is not stored (never created, or
\* purged by the retention sweep) is answered not-found - 404 JSON by upvote,
\* a redirect by view_issue (GET and POST) and by a moderator's update_status -
\* and leaves users, issues, upvotes, comments and notifications unchanged.
C17_MissingIssueNotFound ==
    \A issue_id \in RequestedIds \ DOMAIN db.issues :
        /\ \A u \in Users :
              LET r == upvote(db, u, FALSE, issue_id)
              IN  r.db = db /\ r.response.code = 404 /\ ~r.response.success
        /\ \A u \in Users, method \in Methods, form_valid \in BOOLEAN,
              body \in CommentBodies :
              LET r == view_issue(db, u, FALSE, issue_id, method, form_valid, body)
              IN  r.db = db /\ r.response.code = 302
                            /\ r.response.flash = "Issue not found."
        /\ \A u \in Moderators, s \in SubmittedStatuses :
              LET r == update_status(db, u, FALSE, issue_id, s)
              IN  r.db = db /\ r.response.code = 302

\* an upvote has been answered 404 for an issue the sweep purged: the store is
\* empty on day 91 while its reporter keeps the points of the report
C17_Witness ==
    /\ response = IssueNotFound
    /\ now = 91
    /\ DOMAIN db.issues = {}
    /\ \E u \in Users : db.reputation_points[u] > 0

\* C18: one run of delete_old_issues at time t deletes exactly the issues whose
\* timestamp is more than 90 days before t; every other issue is kept as it
\* was, and no user row or reputation value changes.
C18_SweepDeletesExactlyOld ==
    \A t \in Instants :
        LET r == delete_old_issues(db, t) IN
        /\ DOMAIN r.db.issues =
               {id \in DOMAIN db.issues : ~(db.issues[id].timestamp + 90 < t)}
        /\ \A id \in DOMAIN r.db.issues : r.db.issues[id] = db.issues[id]
        /\ r.db.reputation_points = db.reputation_points
        /\ r.response.deleted =
               Cardinality({id \in DOMAIN db.issues : db.issues[id].timestamp + 90 < t})

\* a sweep has purged at least one issue and kept another; a reporter with no
\* issue left still holds the points earned
C18_Witness ==
    /\ "task" \in DOMAIN response
    /\ response.deleted >= 1
    /\ DOMAIN db.issues # {}
    /\ \E u \in Users :
          /\ db.reputation_points[u] > 0
          /\ \A id \in DOMAIN db.issues : db.issues[id].reporter # u

\* C19: within a process at most one job 'delete_old_issues_job' is ever
\* registered however often create_app is called, no job is registered while
\* the app is in debug or testing mode, and no two executions of
\* delete_old_issues overlap.
C19_SingleSweepJob ==
    /\ CopiesIn(JOB_ID, scheduler.jobs) <= 1
    /\ scheduler.executing <= 1
    /\ (scheduler.app = "current" /\ (app.debug \/ app.testing))
          => CopiesIn(JOB_ID, scheduler.jobs) = 0

\* C20: the similarity function of the search ranker is symmetric: for all
\* vectors a, b of equal dimension and non-zero norm,
\* cosine_similarity(a, b) = cosine_similarity(b, a).
C20_CosineSymmetric ==
    LET stored == {db.issues[id].embedding : id \in DOMAIN db.issues} \ {<<>>}
        vectors == SimilarityVectors \cup QueryEmbeddings \cup stored
    IN  \A a \in vectors, b \in vectors :
            Len(a) = Len(b) => cosine_similarity(a, b) = cosine_similarity(b, a)

\* the ranker has scored the one stored issue, embedded as (3, 4), against a
\* query vector and listed it
C20_Witness ==
    /\ response.code = 200
    /\ "results" \in DOMAIN response
    /\ "embedding" \in outbound.services
    /\ Len(db.issues) = 1
    /\ db.issues[1].embedding = <<3, 4>>
    /\ response.results = <<1>>

\* C21 (as stated): no handler and no task assigns an issue's embedding, every
\* reported issue has a null embedding, and a search with a non-empty q
\* returns an empty result list whatever is stored and whatever the query is.
C21_NonEmptyQueryFindsNothing ==
    /\ \A id \in DOMAIN db.issues : db.issues[id].embedding = <<>>
    /\ \A q \in Queries, loc \in Locations, geo \in GeocoderOutcomes,
          emb \in EmbeddingOutcomes, scan \in ScanOrders(db) :
          q # "" =>
             LET r == search(db, FALSE, q, loc, geo, emb, scan).response
             IN  "results" \in DOMAIN r => r.results = <<>>

\* C21 (amended): no handler and no task assigns an issue's embedding, every
\* reported issue has a null embedding, and a search whose q is non-empty as
\* the handler reads it (Version 2 strips surrounding whitespace first)
\* returns an empty result list whatever is stored and whatever the query is.
C21_EmbeddingNeverSet ==
    LET Null(S) == \A id \in DOMAIN S.issues : S.issues[id].embedding = <<>>
    IN  /\ Null(db)
        /\ \A u \in Users, form \in SubmittedForms : Null(report_issue(db, u, FALSE, form).db)
        /\ \A u \in Users, i \in RequestedIds : Null(upvote(db, u, FALSE, i).db)
        /\ \A u \in Users, i \in RequestedIds, s \in SubmittedStatuses :
              Null(update_status(db, u, FALSE, i, s).db)
        /\ \A u \in Users, i \in RequestedIds, method \in Methods, body \in CommentBodies :
              Null(view_issue(db, u, FALSE, i, method, TRUE, body).db)
        /\ \A t \in Instants : Null(delete_old_issues(db, t).db)
        /\ \A q \in Queries, loc \in Locations, geo \in GeocoderOutcomes,
              emb \in EmbeddingOutcomes, scan \in ScanOrders(db) :
              LET r == search(db, FALSE, q, loc, geo, emb, scan) IN
              /\ Null(r.db)
              /\ RequestArg(q) # "" =>
                    (r.response.code = 200 /\ r.response.results = <<>>)

\* a search with a text query has asked for the query's embedding over a store
\* of two reported issues and has listed nothing
C21_Witness ==
    /\ response.code = 200
    /\ "results" \in DOMAIN response
    /\ response.results = <<>>
    /\ "embedding" \in outbound.services
    /\ Len(db.issues) = 2
    /\ \E u \in Users : db.reputation_points[u] >= REPORT_POINTS

\* C22: in Version 2, once a successful report, upvote or status update has
\* committed, the next GET /analytics is rendered from the database and shows
\* that change, not the page cached before it.
C22_AnalyticsInvalidated ==
    LET Fresh(r) ==
            Committed(db, r) =>
                analytics(r.db, after_commit(db, r, cache), FALSE).response
                    = AnalyticsPage(r.db)
    IN  version = 2 =>
        /\ \A u \in Users, form \in ReportForms : Fresh(report_issue(db, u, FALSE, form))
        /\ \A u \in Users, i \in RequestedIds : Fresh(upvote(db, u, FALSE, i))
        /\ \A u \in Users, i \in RequestedIds, s \in SubmittedStatuses :
              Fresh(update_status(db, u, FALSE, i, s))

\* C23: a notification's timestamp is the clock time at which it was created,
\* GET /notifications?since=t returns exactly the user's notifications with a
\* timestamp after t, and so a client polling with the largest timestamp it
\* has received (a time before now) is given every notification created now.
C23_PollNeverMisses ==
    /\ \A u \in Users, since \in SinceValues :
          notifications(db, u, FALSE, since).response.body =
              BagFilter(db.notifications,
                        LAMBDA n : n.user_id = u /\ n.timestamp > since)
    /\ \A m \in Moderators, i \in DOMAIN db.issues, s \in VALID_STATUSES :
          LET r == update_status(db, m, FALSE, i, s)
              created == r.db.notifications (-) db.notifications
          IN  \A n \in DOMAIN created :
                 /\ n.timestamp = now
                 /\ \A since \in SinceValues :
                       since < now =>
                          n \in DOMAIN notifications(r.db, n.user_id, FALSE, since).response.body

C25_ZeroVectorsExcluded ==
    \A q \in Queries, loc \in Locations, geo \in GeocoderOutcomes,
       emb \in DegenerateOutcomes, scan \in ScanOrders(db) :
        LET r == search(db, FALSE, q, loc, geo, emb, scan).response IN
        RequestArg(q) # "" =>
            /\ r.code = 200
            /\ r.page = "search_results"
            /\ \A k \in DOMAIN r.results :
                  db.issues[r.results[k]].embedding # ZeroVector
            /\ generate_embedding(emb) = ZeroVector => r.results = <<>>

\* a ranked search over a store holding a zero-vector issue and an issue
\* embedded as (3, 4) has listed the second one only
C25_Witness ==
    /\ response.code = 200
    /\ "results" \in DOMAIN response
    /\ "embedding" \in outbound.services
    /\ Len(db.issues) = 2
    /\ db.issues[1].embedding = ZeroVector
    /\ db.issues[2].embedding = <<3, 4>>
    /\ response.results = <<2>>

\* C26: for every user and issue there is at most one Upvote row, also when
\* two requests of one user are handled concurrently, and so upvote_count
\* never becomes negative.
C26_OneUpvotePerUser ==
    /\ \A u \in Users, id \in DOMAIN db.issues : CopiesIn(<<u, id>>, db.upvotes) <= 1
    /\ \A id \in DOMAIN db.issues : db.issues[id].upvote_count >= 0

\* C27: every issue's upvote_count equals the number of Upvote rows that
\* reference it, also after two different users' requests on the issue were
\* handled concurrently (no user holding more than one row on it).
C27_CountMatchesRows ==
    \A id \in DOMAIN db.issues :
        (\A u \in Users : CopiesIn(<<u, id>>, db.upvotes) <= 1) =>
            db.issues[id].upvote_count =
                Cardinality({u \in Users : CopiesIn(<<u, id>>, db.upvotes) = 1})

\* C28: whenever check_duplicates answers is_duplicate=true, the duplicate_id
\* of the response is one of the nearby issues that were inside the
\* duplicate-check box and were passed to the classifier.
C28_DuplicateAmongNearby ==
    \A u \in Users, body \in DuplicateBodies, ai \in ClassifierOutcomes :
        LET r == check_duplicates(db, u, FALSE, body, ai) IN
        (r.response.code = 200 /\ r.response.body.is_duplicate) =>
            /\ r.response.body.duplicate_id \in r.outbound.classifier_input
            /\ r.response.body.duplicate_id
                   \in NearbyIds(db, body.lat, body.lng, DUPLICATE_RADIUS)

\* C29: after any sequence of reports, upvotes, comments and retention sweeps
\* every Upvote row and every Comment row references an issue that exists.
C29_NoDanglingRows ==
    /\ \A row \in DOMAIN db.upvotes : row[2] \in DOMAIN db.issues
    /\ \A c \in DOMAIN db.comments : c.issue_id \in DOMAIN db.issues

\* C30: in every reachable state no two User rows share a username and no
\* two share an e-mail address, also when two POST /register requests are
\* handled at the same time; a registration that is rejected because the
\* username or the address is taken, by the form or by the database at
\* commit, leaves the set of users unchanged
C30_UniqueUsers ==
    /\ \A a \in BagToSet(db.accounts) : db.accounts[a] = 1
    /\ \A a, b \in BagToSet(db.accounts) :
          a # b => a.username # b.username /\ a.email # b.email
    /\ \A form \in RegistrationForms :
          UniqueViolation(db, form) =>
              /\ register(db, 0, FALSE, form).db = db
              /\ register(db, 0, FALSE, form).response.code = 200
              /\ add_user(db, [username |-> form.username, email |-> form.email]).db = db

\* two requests passed the form's lookups with the same username, one has
\* committed and the other was stopped by the index
C30_Witness ==
    /\ response = [code |-> 500, error |-> "IntegrityError"]
    /\ BagCardinality(db.accounts) = MaxUsers + 1

====
